---- MODULE Spec2Model ----
(***************************************************************************)
(* Model of aws_prometheus_exporter.AwsMetricsCollector: update() run by   *)
(* refresh threads, collect() run by scrape threads, the snapshot lock     *)
(* _data_lock, and the two remote-call protocols (_call_paginator,         *)
(* _call_service_method) followed by the projection of _collect_metric.    *)
(*                                                                         *)
(* Spec    the concurrent collector (refresh and scrape threads).          *)
(* SpecFn  one _collect_metric invocation alone, with a larger input       *)
(*         domain for the remote responses and the projected records.      *)
(***************************************************************************)
EXTENDS Integers, Sequences, FiniteSets, TLC

\* ------------------------------------------------------------------------
\* JSON-like values: a pair <<tag, text>>.  None, a string and a number are
\* distinct values; Absent marks a key that a dict does not have.
\* ------------------------------------------------------------------------
JNull == <<"null", "">>
JStr(s) == <<"str", s>>
JNum(s) == <<"num", s>>
JBool(s) == <<"bool", s>>
Absent == <<"absent", "">>

\* `response[label] is not None` / `next_token is not None`
IsNone(v) == v = JNull

\* isinstance(v, (float, int)): bool is a subclass of int, so True and False
\* pass the test as well.
IsNumber(v) == v[1] \in {"num", "bool"}

\* The literal that replaces a None label value.
NullSentinel == JStr("<null>")

\* A projected record: a dict over the keys the metrics use, or a value that
\* is not a dict at all.
Rec(id, az, value) == [isdict |-> TRUE, id |-> id, az |-> az, value |-> value]
NotADict == [isdict |-> FALSE, id |-> Absent, az |-> Absent, value |-> Absent]

\* `key in response`
HasKey(r, key) == r[key] # Absent

\* response.pop("value"): the dict without its "value" key.
Pop(r) == [r EXCEPT !["value"] = Absent]

\* Keyword arguments of a remote call: a dict over the keys used here.
Kwargs(filters, token) == [Filters |-> filters, NextToken |-> token]

\* ------------------------------------------------------------------------
\* The declared metrics (AwsMetric tuples), in declaration order.
\* ------------------------------------------------------------------------
AwsMetric(name, method, method_args, use_paginator, label_names) ==
    [name |-> name, description |-> "d", service |-> "ec2", method |-> method,
     method_args |-> method_args, use_paginator |-> use_paginator,
     label_names |-> label_names, search |-> "s"]

Metrics ==
    << AwsMetric("ec2_instance_ids", "describe_instances",
                 Kwargs(JStr("running"), Absent), TRUE, <<"id">>),
       AwsMetric("ssm_parameters", "describe_parameters",
                 Kwargs(Absent, Absent), FALSE, <<"id", "az">>) >>

MetricIdx == 1..Len(Metrics)
MetricNames == {Metrics[i].name : i \in MetricIdx}

\* ------------------------------------------------------------------------
\* Bounds
\* ------------------------------------------------------------------------
\* At most MaxCalls calls of the service method are answered with a
\* continuation token in one refresh of a metric.
MaxCalls == 3

\* ------------------------------------------------------------------------
\* The frame of one _collect_metric(metric) invocation: its position (pc),
\* its locals, and a record of the remote calls made (calls) and of the
\* NextToken field of each response received (tokens).
\* ------------------------------------------------------------------------
NoMetric == AwsMetric("", "", Kwargs(Absent, Absent), FALSE, <<>>)

IdleFrame ==
    [pc |-> "idle", i |-> 0, metric |-> NoMetric,
     kwargs |-> Kwargs(Absent, Absent), next_token |-> JNull,
     responses |-> <<>>, j |-> 0, result |-> <<>>,
     calls |-> <<>>, tokens |-> <<>>]

\* An exception leaves the function: its locals are gone.
Raise(l) == [IdleFrame EXCEPT !.pc = "raised", !.i = l.i, !.metric = l.metric]

\* A remote response of the service method: its NextToken field and what
\* jmespath.search(metric.search, response) finds in it (None, or a list).
Response(token, none, items) ==
    [NextToken |-> token, found |-> [none |-> none, items |-> items]]

\* _collect_metric line 95 up to the first remote call: _call_paginator
\* builds the paginator; _call_service_method initialises its locals.
Begin(i, metric) ==
    IF metric.use_paginator
    THEN [IdleFrame EXCEPT !.pc = "paginate", !.i = i, !.metric = metric,
                           !.calls = <<metric.method_args>>]
    ELSE [IdleFrame EXCEPT !.pc = "loop", !.i = i, !.metric = metric,
                           !.next_token = JStr(""),
                           !.responses = <<>>,
                           !.kwargs = metric.method_args]

\* list(paginate_response_iterator.search(metric.search)) returned items.
PaginatorReturn(l, items) ==
    [l EXCEPT !.pc = "assert", !.responses = items]

\* `while next_token is not None`: another call, or return responses.
LoopTest(l) ==
    IF ~IsNone(l.next_token)
    THEN [l EXCEPT !.pc = "in_call", !.calls = Append(@, l.kwargs)]
    ELSE [l EXCEPT !.pc = "assert"]

\* response.get('NextToken', None)
GetNextToken(response) ==
    IF response.NextToken = Absent THEN JNull ELSE response.NextToken

\* Variant of ServiceReturn: the token is not merged into kwargs.
ServiceReturn_NoMerge(l, response) ==
    IF response.found.none
    THEN Raise(l)
    ELSE [l EXCEPT !.pc = "loop",
                   !.next_token = GetNextToken(response),
                   !.responses = @ \o response.found.items,
                   !.tokens = Append(@, response.NextToken)]

\* Variant of ServiceReturn: kwargs is metric.method_args itself and not a
\* copy of it, so the token is written into the metric.
ServiceReturn_SharedArgs(l, response) ==
    IF response.found.none
    THEN Raise(l)
    ELSE [l EXCEPT !.pc = "loop",
                   !.next_token = GetNextToken(response),
                   !.responses = @ \o response.found.items,
                   !.kwargs = [@ EXCEPT !.NextToken = GetNextToken(response)],
                   !.metric.method_args = [@ EXCEPT !.NextToken = GetNextToken(response)],
                   !.tokens = Append(@, response.NextToken)]

\* The call returned response: lines 120-122.
ServiceReturn(l, response) ==
    IF response.found.none
    THEN Raise(l)
    ELSE [l EXCEPT !.pc = "loop",
                   !.next_token = GetNextToken(response),
                   !.responses = @ \o response.found.items,
                   !.kwargs = [@ EXCEPT !.NextToken = GetNextToken(response)],
                   !.tokens = Append(@, response.NextToken)]

\* assert all(isinstance(r, dict) for r in responses); result = []
AssertDicts(l) ==
    IF \A k \in 1..Len(l.responses) : l.responses[k].isdict
    THEN [l EXCEPT !.pc = "rows", !.result = <<>>, !.j = 1]
    ELSE Raise(l)

\* Variant of Labels: `response[label] or '<null>'`, which also replaces
\* the empty string.
Labels_Falsy(r, label_names) ==
    [k \in 1..Len(label_names) |->
        IF ~IsNone(r[label_names[k]]) /\ r[label_names[k]] # JStr("")
        THEN r[label_names[k]] ELSE NullSentinel]

\* The label values of one record (after its "value" was popped).
Labels(r, label_names) ==
    [k \in 1..Len(label_names) |->
        IF ~IsNone(r[label_names[k]]) THEN r[label_names[k]] ELSE NullSentinel]

\* Variant of Row: the collector's label values are left out.
Row_NoExtra(r, value, label_names, label_values) ==
    <<Labels(r, label_names), value>>

\* The row appended for one record.
Row(r, value, label_names, label_values) ==
    <<label_values \o Labels(r, label_names), value>>

\* Variant of ProjectRecord: a label the record lacks is read with
\* response.get(label) and so becomes "<null>".
ProjectRecord_DefaultNull(l, label_values) ==
    LET r == l.responses[l.j]
        names == l.metric.label_names
        filled == [key \in DOMAIN r |->
                     IF key \in {"id", "az"} /\ r[key] = Absent THEN JNull ELSE r[key]]
    IN  IF ~HasKey(r, "value") THEN Raise(l)
        ELSE IF ~IsNumber(r.value) THEN Raise(l)
        ELSE [l EXCEPT !.responses[l.j] = Pop(r),
                       !.result = Append(@, Row(Pop(filled), r.value, names, label_values)),
                       !.j = @ + 1]

\* Variant of ProjectRecord: a row equal to one already in the result is
\* not appended again.
ProjectRecord_Dedup(l, label_values) ==
    LET r == l.responses[l.j]
        names == l.metric.label_names
        row == Row(Pop(r), r.value, names, label_values)
    IN  IF ~HasKey(r, "value") THEN Raise(l)
        ELSE IF ~IsNumber(r.value) THEN Raise(l)
        ELSE IF \E k \in 1..Len(names) : ~HasKey(Pop(r), names[k]) THEN Raise(l)
        ELSE [l EXCEPT !.responses[l.j] = Pop(r),
                       !.result = IF \E n \in 1..Len(@) : @[n] = row
                                  THEN @ ELSE Append(@, row),
                       !.j = @ + 1]

\* One iteration of `for response in responses` (lines 98-103).
ProjectRecord(l, label_values) ==
    LET r == l.responses[l.j]
        names == l.metric.label_names
    IN  IF ~HasKey(r, "value") THEN Raise(l)
        ELSE IF ~IsNumber(r.value) THEN Raise(l)
        ELSE IF \E k \in 1..Len(names) : ~HasKey(Pop(r), names[k]) THEN Raise(l)
        ELSE [l EXCEPT !.responses[l.j] = Pop(r),
                       !.result = Append(@, Row(Pop(r), r.value, names, label_values)),
                       !.j = @ + 1]

\* `return result`
Return(l) == [l EXCEPT !.pc = "return"]

\* ------------------------------------------------------------------------
\* State
\* ------------------------------------------------------------------------
VARIABLES
    data_lock,          \* self._data_lock: the thread holding it, or NoThread
    data,               \* self._data: metric name -> entry (absent, or rows)
    self_label_names,   \* self._label_names
    self_label_values,  \* self._label_values
    self_metrics,       \* self._metrics: the AwsMetric objects, by position
    upd,                \* refresh thread -> frame of its update() call
    scr,                \* scrape thread -> state of its collect() generator
    attempted,          \* refresh thread -> metrics whose refresh it started
                        \*   in its current (or last) update() call
    lastGood,           \* metric name -> rows stored by the most recent
                        \*   refresh of the metric that succeeded
    fn,                 \* SpecFn: the frame of the _collect_metric under test
    fn_label_values,    \* SpecFn: self._label_values of that collector
    doc,                \* SpecParse: the YAML document given to the parser
    clock,              \* the current time, read by datetime.now()
    results,            \* SpecParse: what the calls of parse_aws_metrics(doc)
                        \*   made so far returned or raised
    main_pc,            \* SpecMain: position of main()
    main_metrics,       \* SpecMain: metrics = parse_aws_metrics(metrics_yaml)
    listening,          \* SpecMain: start_http_server(port) was called
    gauges,             \* aws_metrics.py: self.gauges, metric name -> Gauge
    created,            \* aws_metrics.py: metric name -> Gauge(...) calls made
    run,                \* aws_metrics.py: frame of the run() call
    runs                \* aws_metrics.py: number of run() calls made

vars == <<data_lock, data, self_label_names, self_label_values, self_metrics, upd, scr,
          attempted, lastGood, fn, fn_label_values, doc, clock, results,
          main_pc, main_metrics, listening, gauges, created, run, runs>>

collectorVars == <<data_lock, data, self_label_names, self_label_values, self_metrics,
                   upd, scr, attempted, lastGood>>
fnVars == <<fn, fn_label_values>>
parseVars == <<doc, clock, results>>
mainVars == <<main_pc, main_metrics, listening>>

\* The variables of the other specifications, at rest.
ParseIdle == doc = <<>> /\ clock = 0 /\ results = <<>>
MainIdle == main_pc = "none" /\ main_metrics = <<>> /\ listening = FALSE

\* ------------------------------------------------------------------------
\* aws_metrics.py: the metrics of the legacy collector and its state at
\* construction.
\* ------------------------------------------------------------------------
legacyVars == <<gauges, created, run, runs>>

LegacyMetric(name, value_label) ==
    [name |-> name, description |-> "d", type |-> "array_to_unit_gauge",
     value_label |-> value_label, service |-> "ec2", paginator |-> "p",
     filters |-> <<>>, search |-> "s"]

LegacyMetrics ==
    << LegacyMetric("ec2_instance_ids", "id"),
       LegacyMetric("ssm_instance_ids", "instance") >>
LegacyNames == {LegacyMetrics[k].name : k \in 1..Len(LegacyMetrics)}

\* No Gauge under a name of self.gauges; a Gauge: its label names and its
\* samples, each a tuple of label values with the value set.
NoGauge == [exists |-> FALSE, labelnames |-> <<>>, samples |-> {}]
Gauge(labels) == [exists |-> TRUE, labelnames |-> labels, samples |-> {}]

\* The frame of run(): position, metric index, arguments, the values the
\* response iterator has still to return, and the exception that ended it.
IdleRun ==
    [pc |-> "idle", k |-> 0, label_names |-> <<>>, label_values |-> <<>>,
     pending |-> <<>>, error |-> ""]

LegacyIdle ==
    /\ gauges = [n \in LegacyNames |-> NoGauge]
    /\ created = [n \in LegacyNames |-> 0]
    /\ run = IdleRun
    /\ runs = 0

Updaters == {"main", "worker"}
Scrapers == {"scrape"}
NoThread == "none"

\* An entry of self._data; self._data.get(name, []) reads it.
NoEntry == [present |-> FALSE, rows |-> <<>>]
Entry(rows) == [present |-> TRUE, rows |-> rows]
Get(d, name) == IF d[name].present THEN d[name].rows ELSE <<>>

\* GaugeMetricFamily(name, description, labels=...) plus add_metric per row.
GaugeMetricFamily(m, labels, rows) ==
    [name |-> m.name, documentation |-> m.description,
     labels |-> labels, samples |-> rows]

\* The extra labels a collector may be constructed with.
ExtraLabels ==
    { [names |-> <<>>, values |-> <<>>],
      [names |-> <<"region_name", "env">>,
       values |-> <<JStr("us-east-1"), JStr("dev")>>] }

\* Records and remote results of the concurrent model.
recA == Rec(JStr("a"), JStr("z"), JNum("1"))
recN == Rec(JNull, JStr("z"), JNum("2"))
recBad == Rec(JStr("a"), JStr("z"), Absent)

Pages == { <<>>, <<recA>>, <<recN, recA>>, <<recA, recBad>> }

Responses ==
    { Response(tok, FALSE, items) :
        tok \in {Absent, JStr("t1")}, items \in {<<recA>>, <<recBad>>} }

\* The remote service answers at most MaxCalls calls of one refresh with a
\* continuation token.
MayAnswer(l, response) ==
    Len(l.calls) < MaxCalls \/ IsNone(GetNextToken(response))

Init ==
    /\ data_lock = NoThread
    /\ data = [n \in MetricNames |-> NoEntry]
    /\ \E x \in ExtraLabels :
          /\ self_label_names = x.names
          /\ self_label_values = x.values
    /\ self_metrics = Metrics
    /\ LegacyIdle
    /\ upd = [t \in Updaters |-> IdleFrame]
    /\ scr = [s \in Scrapers |-> [pc |-> "idle", k |-> 0, families |-> <<>>]]
    /\ attempted = [t \in Updaters |-> {}]
    /\ lastGood = [n \in MetricNames |-> <<>>]
    /\ fn = IdleFrame
    /\ fn_label_values = <<>>
    /\ ParseIdle
    /\ MainIdle

\* ------------------------------------------------------------------------
\* update()
\* ------------------------------------------------------------------------
\* A thread calls update() and reaches `with self._data_lock`.
UpdateCall(t) ==
    /\ upd[t].pc = "idle"
    /\ upd' = [upd EXCEPT ![t] = [IdleFrame EXCEPT !.pc = "lock"]]
    /\ attempted' = [attempted EXCEPT ![t] = {}]
    /\ UNCHANGED <<data_lock, data, self_label_names, self_label_values, self_metrics,
                   scr, lastGood, fnVars, parseVars, mainVars, legacyVars>>

\* Variant of UpdateAcquire: the thread does not wait for the lock.
UpdateAcquire_NoWait(t) ==
    /\ upd[t].pc = "lock"
    /\ data_lock' = t
    /\ upd' = [upd EXCEPT ![t].pc = "clear"]
    /\ UNCHANGED <<data, self_label_names, self_label_values, self_metrics, scr,
                   attempted, lastGood, fnVars, parseVars, mainVars, legacyVars>>

\* Lock.acquire(): blocks while another thread holds the lock.
UpdateAcquire(t) ==
    /\ upd[t].pc = "lock"
    /\ data_lock = NoThread
    /\ data_lock' = t
    /\ upd' = [upd EXCEPT ![t].pc = "clear"]
    /\ UNCHANGED <<data, self_label_names, self_label_values, self_metrics, scr,
                   attempted, lastGood, fnVars, parseVars, mainVars, legacyVars>>

\* self._data = {}
UpdateClear(t) ==
    /\ upd[t].pc = "clear"
    /\ data' = [n \in MetricNames |-> NoEntry]
    /\ upd' = [upd EXCEPT ![t].pc = "next", ![t].i = 1]
    /\ UNCHANGED <<data_lock, self_label_names, self_label_values, self_metrics, scr,
                   attempted, lastGood, fnVars, parseVars, mainVars, legacyVars>>

\* Variant of UpdateStep: an exception leaves update() with the lock held.
UpdateStep_KeepLock(t, next) ==
    /\ upd' = [upd EXCEPT ![t] = next]
    /\ data_lock' = data_lock
    /\ self_metrics' = [self_metrics EXCEPT ![next.i] = next.metric]
    /\ UNCHANGED <<data, self_label_names, self_label_values, scr,
                   lastGood, fnVars, parseVars, mainVars, legacyVars>>

\* The effect of a step inside _collect_metric on the thread and the lock:
\* an exception leaves update() through the with-statement, which releases
\* the lock.  The frame's metric is the AwsMetric object of self._metrics
\* itself, so what the step did to it is done to self._metrics.
UpdateStep(t, next) ==
    /\ upd' = [upd EXCEPT ![t] = next]
    /\ data_lock' = IF next.pc = "raised" THEN NoThread ELSE data_lock
    /\ self_metrics' = [self_metrics EXCEPT ![next.i] = next.metric]
    /\ UNCHANGED <<data, self_label_names, self_label_values, scr,
                   lastGood, fnVars, parseVars, mainVars, legacyVars>>

\* `for metric in self._metrics`: the next metric's _collect_metric starts.
UpdateCollectMetric(t) ==
    /\ upd[t].pc = "next"
    /\ upd[t].i \in MetricIdx
    /\ UpdateStep(t, Begin(upd[t].i, self_metrics[upd[t].i]))
    /\ attempted' = [attempted EXCEPT ![t] = @ \cup {upd[t].i}]

UpdatePaginatorReturn(t) ==
    /\ upd[t].pc = "paginate"
    /\ \E items \in Pages : UpdateStep(t, PaginatorReturn(upd[t], items))
    /\ UNCHANGED attempted

UpdateLoopTest(t) ==
    /\ upd[t].pc = "loop"
    /\ UpdateStep(t, LoopTest(upd[t]))
    /\ UNCHANGED attempted

UpdateServiceReturn(t) ==
    /\ upd[t].pc = "in_call"
    /\ \E response \in Responses :
          /\ MayAnswer(upd[t], response)
          /\ UpdateStep(t, ServiceReturn(upd[t], response))
    /\ UNCHANGED attempted

\* The remote call (paginator pages or service method) raises.
UpdateRemoteRaise(t) ==
    /\ upd[t].pc \in {"paginate", "in_call"}
    /\ UpdateStep(t, Raise(upd[t]))
    /\ UNCHANGED attempted

UpdateAssertDicts(t) ==
    /\ upd[t].pc = "assert"
    /\ UpdateStep(t, AssertDicts(upd[t]))
    /\ UNCHANGED attempted

\* Variant of UpdateProjectRecord: the result list is the list stored in
\* self._data and is filled in place, so a failure leaves it half built.
UpdateProjectRecord_InPlace(t) ==
    /\ upd[t].pc = "rows"
    /\ upd[t].j <= Len(upd[t].responses)
    /\ LET next == ProjectRecord(upd[t], self_label_values)
       IN  /\ upd' = [upd EXCEPT ![t] = next]
           /\ data_lock' = IF next.pc = "raised" THEN NoThread ELSE data_lock
           /\ data' = IF next.pc = "raised" THEN data
                      ELSE [data EXCEPT ![upd[t].metric.name] = Entry(next.result)]
    /\ UNCHANGED <<self_label_names, self_label_values, self_metrics, scr, lastGood,
                   attempted, fnVars, parseVars, mainVars, legacyVars>>

UpdateProjectRecord(t) ==
    /\ upd[t].pc = "rows"
    /\ upd[t].j <= Len(upd[t].responses)
    /\ UpdateStep(t, ProjectRecord(upd[t], self_label_values))
    /\ UNCHANGED attempted

UpdateReturn(t) ==
    /\ upd[t].pc = "rows"
    /\ upd[t].j > Len(upd[t].responses)
    /\ UpdateStep(t, Return(upd[t]))
    /\ UNCHANGED attempted

\* self._data[metric.name] = <the returned result>
UpdateStore(t) ==
    /\ upd[t].pc = "return"
    /\ data' = [data EXCEPT ![upd[t].metric.name] = Entry(upd[t].result)]
    /\ lastGood' = [lastGood EXCEPT ![upd[t].metric.name] = upd[t].result]
    /\ upd' = [upd EXCEPT ![t] = [IdleFrame EXCEPT !.pc = "next", !.i = upd[t].i + 1]]
    /\ UNCHANGED <<data_lock, self_label_names, self_label_values, self_metrics, scr,
                   attempted, fnVars, parseVars, mainVars, legacyVars>>

\* The loop is over: the with-statement releases the lock, update() returns.
UpdateRelease(t) ==
    /\ upd[t].pc = "next"
    /\ upd[t].i \notin MetricIdx
    /\ data_lock' = NoThread
    /\ upd' = [upd EXCEPT ![t] = IdleFrame]
    /\ UNCHANGED <<data, self_label_names, self_label_values, self_metrics, scr,
                   attempted, lastGood, fnVars, parseVars, mainVars, legacyVars>>

\* The caller of update() has seen the exception; it may call again.
UpdateRaised(t) ==
    /\ upd[t].pc = "raised"
    /\ upd' = [upd EXCEPT ![t] = IdleFrame]
    /\ UNCHANGED <<data_lock, data, self_label_names, self_label_values, self_metrics, scr,
                   attempted, lastGood, fnVars, parseVars, mainVars, legacyVars>>

\* ------------------------------------------------------------------------
\* collect(): a generator; the lock is held from its first resumption until
\* it is exhausted.
\* ------------------------------------------------------------------------
\* The registry starts iterating collect(): `with self._data_lock`.
CollectCall(s) ==
    /\ scr[s].pc \in {"idle", "done"}
    /\ scr' = [scr EXCEPT ![s] = [pc |-> "lock", k |-> 0, families |-> <<>>]]
    /\ UNCHANGED <<data_lock, data, self_label_names, self_label_values, self_metrics, upd,
                   attempted, lastGood, fnVars, parseVars, mainVars, legacyVars>>

CollectAcquire(s) ==
    /\ scr[s].pc = "lock"
    /\ data_lock = NoThread
    /\ data_lock' = s
    /\ scr' = [scr EXCEPT ![s].pc = "loop", ![s].k = 1]
    /\ UNCHANGED <<data, self_label_names, self_label_values, self_metrics, upd,
                   attempted, lastGood, fnVars, parseVars, mainVars, legacyVars>>

\* The family built and yielded for metric m (lines 89-92).
Family(m) ==
    GaugeMetricFamily(m, self_label_names \o m.label_names, Get(data, m.name))

\* Variant of CollectYield: a metric without entry in self._data is skipped.
CollectYield_SkipMissing(s) ==
    /\ scr[s].pc = "loop"
    /\ scr[s].k \in MetricIdx
    /\ scr' = IF data[self_metrics[scr[s].k].name].present
              THEN [scr EXCEPT ![s].pc = "yielded",
                               ![s].families = Append(@, Family(self_metrics[scr[s].k]))]
              ELSE [scr EXCEPT ![s].k = @ + 1]
    /\ UNCHANGED <<data_lock, data, self_label_names, self_label_values, self_metrics, upd,
                   attempted, lastGood, fnVars, parseVars, mainVars, legacyVars>>

\* One iteration of `for m in self._metrics`, up to the yield.
CollectYield(s) ==
    /\ scr[s].pc = "loop"
    /\ scr[s].k \in MetricIdx
    /\ scr' = [scr EXCEPT ![s].pc = "yielded",
                          ![s].families = Append(@, Family(self_metrics[scr[s].k]))]
    /\ UNCHANGED <<data_lock, data, self_label_names, self_label_values, self_metrics, upd,
                   attempted, lastGood, fnVars, parseVars, mainVars, legacyVars>>

\* Variant of CollectResume: the lock is released between two families.
CollectResume_Unlocked(s) ==
    /\ scr[s].pc = "yielded"
    /\ scr' = [scr EXCEPT ![s].pc = "loop", ![s].k = @ + 1]
    /\ data_lock' = NoThread
    /\ UNCHANGED <<data, self_label_names, self_label_values, self_metrics, upd,
                   attempted, lastGood, fnVars, parseVars, mainVars, legacyVars>>

\* The consumer asks for the next family.
CollectResume(s) ==
    /\ scr[s].pc = "yielded"
    /\ scr' = [scr EXCEPT ![s].pc = "loop", ![s].k = @ + 1]
    /\ UNCHANGED <<data_lock, data, self_label_names, self_label_values, self_metrics, upd,
                   attempted, lastGood, fnVars, parseVars, mainVars, legacyVars>>

\* The loop is over: the with-statement releases the lock.
CollectExit(s) ==
    /\ scr[s].pc = "loop"
    /\ scr[s].k \notin MetricIdx
    /\ data_lock' = NoThread
    /\ scr' = [scr EXCEPT ![s].pc = "done"]
    /\ UNCHANGED <<data, self_label_names, self_label_values, self_metrics, upd,
                   attempted, lastGood, fnVars, parseVars, mainVars, legacyVars>>

Next ==
    \/ \E t \in Updaters : UpdateCall(t)
    \/ \E t \in Updaters : UpdateAcquire(t)
    \/ \E t \in Updaters : UpdateClear(t)
    \/ \E t \in Updaters : UpdateCollectMetric(t)
    \/ \E t \in Updaters : UpdatePaginatorReturn(t)
    \/ \E t \in Updaters : UpdateLoopTest(t)
    \/ \E t \in Updaters : UpdateServiceReturn(t)
    \/ \E t \in Updaters : UpdateRemoteRaise(t)
    \/ \E t \in Updaters : UpdateAssertDicts(t)
    \/ \E t \in Updaters : UpdateProjectRecord(t)
    \/ \E t \in Updaters : UpdateReturn(t)
    \/ \E t \in Updaters : UpdateStore(t)
    \/ \E t \in Updaters : UpdateRelease(t)
    \/ \E t \in Updaters : UpdateRaised(t)
    \/ \E s \in Scrapers : CollectCall(s)
    \/ \E s \in Scrapers : CollectAcquire(s)
    \/ \E s \in Scrapers : CollectYield(s)
    \/ \E s \in Scrapers : CollectResume(s)
    \/ \E s \in Scrapers : CollectExit(s)

Spec == Init /\ [][Next]_vars

\* ------------------------------------------------------------------------
\* SpecFn: one _collect_metric(metric) invocation, from the dispatch of
\* line 95 to its return or its exception, for inputs drawn from FnMetrics,
\* FnPages and FnResponses.
\* ------------------------------------------------------------------------
\* At most MaxRecs records in the result of a paginated search.
MaxRecs == 2

FnMetrics ==
    { AwsMetric("ec2_instance_ids", "describe_instances",
                Kwargs(JStr("running"), Absent), TRUE, <<"id">>),
      AwsMetric("ec2_instance_zones", "describe_instances",
                Kwargs(JStr("running"), Absent), TRUE, <<"id", "az">>),
      AwsMetric("ec2_instance_count", "describe_instances",
                Kwargs(Absent, Absent), TRUE, <<>>),
      AwsMetric("ec2_instance_ids", "describe_instances",
                Kwargs(JStr("running"), Absent), FALSE, <<"id">>) }

FnLabelValues == { <<>>, <<JStr("us-east-1")>> }

\* Projected records: the label is None, empty, a name, the sentinel text
\* itself or missing; the value is a number, a string or missing.
FnRecords ==
    { Rec(id, JStr("z"), value) :
        id \in {JNull, JStr(""), JStr("a"), NullSentinel, Absent},
        value \in {JNum("1"), JStr("x"), JBool("True"), Absent} }
    \cup { Rec(JStr("a"), Absent, JNum("1")), NotADict }

FnPages == UNION { [1..n -> FnRecords] : n \in 0..MaxRecs }

FnTokens == {Absent, JNull, JStr(""), JStr("t1"), JStr("t2")}

FnResponses ==
    { Response(tok, FALSE, items) :
        tok \in FnTokens, items \in {<<>>, <<recA>>, <<recN>>} }
    \cup { Response(tok, TRUE, <<>>) : tok \in {Absent, JStr("t1")} }

FnInit ==
    /\ fn = IdleFrame
    /\ fn_label_values \in FnLabelValues
    /\ data_lock = NoThread
    /\ data = [n \in MetricNames |-> NoEntry]
    /\ self_label_names = <<>>
    /\ self_label_values = <<>>
    /\ self_metrics = Metrics
    /\ LegacyIdle
    /\ upd = [t \in Updaters |-> IdleFrame]
    /\ scr = [s \in Scrapers |-> [pc |-> "idle", k |-> 0, families |-> <<>>]]
    /\ attempted = [t \in Updaters |-> {}]
    /\ lastGood = [n \in MetricNames |-> <<>>]
    /\ ParseIdle
    /\ MainIdle

\* _collect_metric(metric) is called.
FnCollectMetric ==
    /\ fn.pc = "idle"
    /\ \E m \in FnMetrics : fn' = Begin(1, m)
    /\ UNCHANGED <<fn_label_values, collectorVars, parseVars, mainVars, legacyVars>>

FnPaginatorReturn ==
    /\ fn.pc = "paginate"
    /\ \E items \in FnPages : fn' = PaginatorReturn(fn, items)
    /\ UNCHANGED <<fn_label_values, collectorVars, parseVars, mainVars, legacyVars>>

FnLoopTest ==
    /\ fn.pc = "loop"
    /\ fn' = LoopTest(fn)
    /\ UNCHANGED <<fn_label_values, collectorVars, parseVars, mainVars, legacyVars>>

FnServiceReturn ==
    /\ fn.pc = "in_call"
    /\ \E response \in FnResponses :
          /\ MayAnswer(fn, response)
          /\ fn' = ServiceReturn(fn, response)
    /\ UNCHANGED <<fn_label_values, collectorVars, parseVars, mainVars, legacyVars>>

FnRemoteRaise ==
    /\ fn.pc \in {"paginate", "in_call"}
    /\ fn' = Raise(fn)
    /\ UNCHANGED <<fn_label_values, collectorVars, parseVars, mainVars, legacyVars>>

FnAssertDicts ==
    /\ fn.pc = "assert"
    /\ fn' = AssertDicts(fn)
    /\ UNCHANGED <<fn_label_values, collectorVars, parseVars, mainVars, legacyVars>>

FnProjectRecord ==
    /\ fn.pc = "rows"
    /\ fn.j <= Len(fn.responses)
    /\ fn' = ProjectRecord(fn, fn_label_values)
    /\ UNCHANGED <<fn_label_values, collectorVars, parseVars, mainVars, legacyVars>>

FnReturn ==
    /\ fn.pc = "rows"
    /\ fn.j > Len(fn.responses)
    /\ fn' = Return(fn)
    /\ UNCHANGED <<fn_label_values, collectorVars, parseVars, mainVars, legacyVars>>

FnNext ==
    \/ FnCollectMetric
    \/ FnPaginatorReturn
    \/ FnLoopTest
    \/ FnServiceReturn
    \/ FnRemoteRaise
    \/ FnAssertDicts
    \/ FnProjectRecord
    \/ FnReturn

SpecFn == FnInit /\ [][FnNext]_vars

\* ------------------------------------------------------------------------
\* Properties of update() and collect()  (checked under Spec)
\* ------------------------------------------------------------------------
\* Positions of update() between acquiring and releasing the lock.
InFlight ==
    {"clear", "next", "paginate", "loop", "in_call", "assert", "rows", "return"}

\* Positions inside _collect_metric(metric): the refresh of one metric.
Refreshing == {"paginate", "loop", "in_call", "assert", "rows", "return"}

\* The family a suspended collect() generator has just yielded.
LastFamily(s) == scr[s].families[Len(scr[s].families)]

\* C1 (stale-but-available): when update() has failed in the refresh of a
\* metric, the rows stored for that metric are the rows stored by the
\* metric's most recent successful refresh (none: the empty initial state).
C1_StaleButAvailable ==
    \A t \in Updaters :
        upd[t].pc = "raised" =>
            Get(data, upd[t].metric.name) = lastGood[upd[t].metric.name]

\* C2 (fault isolation): when the refresh of one metric has failed in an
\* update() call, the refresh of every other declared metric has been
\* attempted in that same call.
C2_FaultIsolation ==
    \A t \in Updaters :
        upd[t].pc = "raised" => attempted[t] = MetricIdx

\* C3 (snapshot read consistency): the row list collect() emits for a metric
\* is the empty list or the complete row list written by a completed refresh
\* of that metric (the latest one), and no update() is between acquiring and
\* releasing the lock while collect() is emitting.
C3_SnapshotReadConsistency ==
    \A s \in Scrapers :
        scr[s].pc = "yielded" =>
            /\ LastFamily(s).samples \in {<<>>, lastGood[LastFamily(s).name]}
            /\ \A t \in Updaters : upd[t].pc \notin InFlight

\* C3 witness: collect() emits a non-empty row list while a refresh thread
\* is waiting for the lock, after a refresh of that metric was completed.
C3_Witness ==
    \E s \in Scrapers, t \in Updaters :
        /\ scr[s].pc = "yielded"
        /\ LastFamily(s).samples # <<>>
        /\ upd[t].pc = "lock"

\* C4 (short critical sections): no remote call and no projection is
\* performed while the snapshot lock is held.
C4_ShortCriticalSections ==
    \A t \in Updaters :
        upd[t].pc \in {"paginate", "in_call", "assert", "rows"} => data_lock # t

\* C5 (no self-overlap): at most one refresh of a given metric is in flight;
\* a thread whose update() arrives meanwhile is not inside a refresh.
C5_NoSelfOverlap ==
    \A t1, t2 \in Updaters :
        (/\ upd[t1].pc \in Refreshing
         /\ upd[t2].pc \in Refreshing
         /\ upd[t1].metric.name = upd[t2].metric.name) => t1 = t2

\* C5 witness: one thread waits on a remote call of a refresh while another
\* thread has called update() and waits for the lock.
C5_Witness ==
    \E t1, t2 \in Updaters :
        /\ upd[t1].pc \in {"paginate", "in_call"}
        /\ upd[t2].pc = "lock"

\* The label values of a stored row.
RowLabels(row) == row[1]

\* C9 (extra labels): every stored row has the collector's label values
\* followed by as many values as the metric has label names; every emitted
\* family has the collector's label names followed by the metric's.
C9_ExtraLabels ==
    /\ \A i \in MetricIdx :
        \A r \in 1..Len(Get(data, Metrics[i].name)) :
            LET lv == RowLabels(Get(data, Metrics[i].name)[r])
            IN  /\ Len(lv) = Len(self_label_values) + Len(Metrics[i].label_names)
                /\ SubSeq(lv, 1, Len(self_label_values)) = self_label_values
    /\ \A s \in Scrapers :
        \A k \in 1..Len(scr[s].families) :
            /\ scr[s].families[k].labels =
                   self_label_names \o Metrics[k].label_names
            /\ \A r \in 1..Len(scr[s].families[k].samples) :
                   Len(RowLabels(scr[s].families[k].samples[r]))
                       = Len(scr[s].families[k].labels)

\* C9 witness: a collector with extra labels has stored rows for every
\* metric and collect() has emitted a family with samples.
C9_Witness ==
    /\ self_label_values # <<>>
    /\ \A i \in MetricIdx : Get(data, Metrics[i].name) # <<>>
    /\ \E s \in Scrapers :
          /\ scr[s].families # <<>>
          /\ LastFamily(s).samples # <<>>

\* C10 (render completeness): a collect() pass emits the declared metrics'
\* families in declaration order, one each, and a finished pass has emitted
\* all of them; each family carries the rows stored for its metric, none
\* when the metric has no entry.
C10_RenderCompleteness ==
    \A s \in Scrapers :
        /\ Len(scr[s].families) <= Len(Metrics)
        /\ \A k \in 1..Len(scr[s].families) :
              scr[s].families[k].name = Metrics[k].name
        /\ scr[s].pc = "yielded" =>
              /\ Len(scr[s].families) = scr[s].k
              /\ LastFamily(s).samples = Get(data, LastFamily(s).name)
        /\ scr[s].pc = "done" => Len(scr[s].families) = Len(Metrics)

\* C10 witness: a finished pass, after a failed refresh, with a family of
\* zero samples for a metric without entry and a family with samples.
C10_Witness ==
    \E s \in Scrapers, t \in Updaters :
        /\ scr[s].pc = "done"
        /\ upd[t].pc = "raised"
        /\ \E k \in MetricIdx :
              /\ scr[s].families[k].samples = <<>>
              /\ ~data[Metrics[k].name].present
        /\ \E k \in MetricIdx : scr[s].families[k].samples # <<>>

\* ------------------------------------------------------------------------
\* Properties of _call_service_method and _collect_metric (under SpecFn)
\* ------------------------------------------------------------------------
\* A response field that carries no continuation token: absent or None.
TokenLess(v) == v \in {Absent, JNull}

\* C6 (cursor loop): for a non-paginated metric the first call carries
\* exactly method_args, call n+1 carries method_args plus the NextToken of
\* response n, no call follows a token-less response, and the loop ends
\* after as many calls as responses, the last response being token-less.
C6_CursorLoop ==
    (~fn.metric.use_paginator /\ fn.pc \in Refreshing) =>
        /\ Len(fn.calls) >= 1 => fn.calls[1] = fn.metric.method_args
        /\ \A n \in 2..Len(fn.calls) :
              /\ ~TokenLess(fn.tokens[n - 1])
              /\ fn.calls[n] =
                   [fn.metric.method_args EXCEPT !.NextToken = fn.tokens[n - 1]]
        /\ \A n \in 1..Len(fn.tokens) :
              TokenLess(fn.tokens[n]) => Len(fn.calls) = n
        /\ fn.pc \in {"assert", "rows", "return"} =>
              /\ Len(fn.calls) = Len(fn.tokens)
              /\ Len(fn.tokens) >= 1
              /\ TokenLess(fn.tokens[Len(fn.tokens)])

\* C6 witness: the loop has ended after two responses with a token and a
\* third one without.
C6_Witness ==
    /\ ~fn.metric.use_paginator
    /\ fn.pc = "assert"
    /\ Len(fn.calls) = 3
    /\ fn.tokens[1] = JStr("t1")
    /\ TokenLess(fn.tokens[3])

\* C7 (termination on an empty token): no call is made after a response
\* whose NextToken is absent, None or the empty string.
C7_EmptyTokenEndsLoop ==
    (~fn.metric.use_paginator /\ fn.pc \in Refreshing) =>
        \A n \in 1..Len(fn.tokens) :
            (TokenLess(fn.tokens[n]) \/ fn.tokens[n] = JStr(""))
                => Len(fn.calls) <= n

\* The label value emitted in row n for the metric's k-th label, and the
\* value record n has for it.
Emitted(n, k) == RowLabels(fn.result[n])[Len(fn_label_values) + k]
Recorded(n, k) == fn.responses[n][fn.metric.label_names[k]]

\* C8 as stated (null sentinel): the emitted label value is "<null>" if and
\* only if the record's value is None; other values are emitted unchanged.
C8_NullSentinelIff ==
    fn.pc \in {"rows", "return"} =>
        \A n \in 1..Len(fn.result) :
            \A k \in 1..Len(fn.metric.label_names) :
                /\ (Emitted(n, k) = NullSentinel) <=> IsNone(Recorded(n, k))
                /\ ~IsNone(Recorded(n, k)) => Emitted(n, k) = Recorded(n, k)

\* C8 amended: a None label value is emitted as "<null>" and every other
\* value, the empty string included, is emitted unchanged; so the emitted
\* value is "<null>" exactly when the record's value is None or is the
\* string "<null>" itself.
C8_NullSentinel ==
    fn.pc \in {"rows", "return"} =>
        \A n \in 1..Len(fn.result) :
            \A k \in 1..Len(fn.metric.label_names) :
                /\ IsNone(Recorded(n, k)) => Emitted(n, k) = NullSentinel
                /\ ~IsNone(Recorded(n, k)) => Emitted(n, k) = Recorded(n, k)
                /\ (Emitted(n, k) = NullSentinel) <=>
                       (IsNone(Recorded(n, k)) \/ Recorded(n, k) = NullSentinel)

\* C8 witness: rows were produced for a record with a None label and for a
\* record with an empty-string label.
C8_Witness ==
    /\ fn.pc = "return"
    /\ Len(fn.result) = 2
    /\ fn.metric.label_names = <<"id">>
    /\ Recorded(1, 1) = JNull
    /\ Recorded(2, 1) = JStr("")
    /\ Emitted(2, 1) = JStr("")

\* The value of a stored row.
RowValue(row) == row[2]

\* C13 (value validation): a refresh returns rows only if the projection
\* result was a list of mappings each of which had a "value" that is a
\* number (an integer or a floating point number).
C13_ValueValidation ==
    fn.pc = "return" =>
        /\ Len(fn.result) = Len(fn.responses)
        /\ \A n \in 1..Len(fn.responses) : fn.responses[n].isdict
        /\ \A n \in 1..Len(fn.result) : RowValue(fn.result[n])[1] = "num"

\* The record the projection loop is about to process lacks a label.
MissingLabel ==
    \E k \in 1..Len(fn.metric.label_names) :
        ~HasKey(fn.responses[fn.j], fn.metric.label_names[k])

\* C14 (missing label is fatal): processing a record that lacks a declared
\* label raises and leaves no rows; a record that has a numeric value and
\* every declared label yields one row with exactly the declared labels,
\* whatever other fields it has.
C14_MissingLabelFatal ==
    [][ (fn.pc = "rows" /\ fn.j <= Len(fn.responses)) =>
          /\ MissingLabel => (fn'.pc = "raised" /\ fn'.result = <<>>)
          /\ (/\ ~MissingLabel
              /\ HasKey(fn.responses[fn.j], "value")
              /\ IsNumber(fn.responses[fn.j].value)) =>
                 /\ fn'.pc = "rows"
                 /\ Len(fn'.result) = Len(fn.result) + 1
                 /\ Len(RowLabels(fn'.result[Len(fn'.result)]))
                      = Len(fn_label_values) + Len(fn.metric.label_names)
      ]_vars

\* C14 witness: a row was produced for a record with a field that is not a
\* declared label, and the next record lacks the declared label.
C14_Witness ==
    /\ fn.pc = "rows"
    /\ fn.metric.label_names = <<"id">>
    /\ fn.j = 2
    /\ Len(fn.result) = 1
    /\ HasKey(fn.responses[1], "az")
    /\ Len(fn.responses) = 2
    /\ ~HasKey(fn.responses[2], "id")
    /\ HasKey(fn.responses[2], "value")
    /\ IsNumber(fn.responses[2].value)

\* ------------------------------------------------------------------------
\* parse_aws_metrics(yaml_string)
\*
\* A YAML document is the sequence of its top-level items, in text order;
\* an item is a metric name (a sequence of characters) and an entry, a dict
\* over the keys the parser reads.  A string field is <<"text", chars>>, an
\* arguments dict is <<"dict", key, tag, text>>, a label list is the
\* sequence of its names.
\* ------------------------------------------------------------------------
\* Longest metric name, most items in a document, last clock value.
MaxNameLen == 2
MaxEntries == 2
MaxClock == 1

YText(chars) == <<"text", chars>>
YDict(key, v) == <<"dict", key, v[1], v[2]>>
YEmptyDict == <<"dict", "", "", "">>
YList == <<"list", "">>
DateTime(n) == <<"datetime", ToString(n)>>

Item(name, entry) == [name |-> name, entry |-> entry]

\* str.strip(): leading and trailing whitespace removed.
Whitespace == {" ", "\n"}
RECURSIVE LStrip(_)
LStrip(chars) ==
    IF chars # <<>> /\ Head(chars) \in Whitespace THEN LStrip(Tail(chars)) ELSE chars
RECURSIVE RStrip(_)
RStrip(chars) ==
    IF chars # <<>> /\ chars[Len(chars)] \in Whitespace
    THEN RStrip(SubSeq(chars, 1, Len(chars) - 1)) ELSE chars
Strip(v) == YText(RStrip(LStrip(v[2])))

\* VALID_METRIC_NAME_RE.match(metric_name) for "^[a-z_0-9]+$": a non-empty
\* run of class characters from the start of the name, up to its end or up
\* to a newline that ends the name ("$" also matches just before it).
InClass(c) == c \in {"a", "b", "7", "_"}
ReMatch(name) ==
    \E n \in 1..Len(name) :
        /\ \A i \in 1..n : InClass(name[i])
        /\ \/ n = Len(name)
           \/ n = Len(name) - 1 /\ name[Len(name)] = "\n"

\* yaml.load: a dict in insertion order; an item whose key is already
\* present replaces that key's value.
PutItem(d, item) ==
    IF \E i \in 1..Len(d) : d[i].name = item.name
    THEN [i \in 1..Len(d) |-> IF d[i].name = item.name THEN item ELSE d[i]]
    ELSE Append(d, item)
RECURSIVE YamlLoadFrom(_, _)
YamlLoadFrom(text, d) ==
    IF text = <<>> THEN d ELSE YamlLoadFrom(Tail(text), PutItem(d, Head(text)))
YamlLoad(text) == YamlLoadFrom(text, <<>>)

\* An exception of the parser: its type, the metric its message names (if
\* any) and the entry fields its message names.
ValueError_NoField(name, fields) ==
    [kind |-> "ValueError", named |-> TRUE, metric |-> name, fields |-> {}]
NoError == [kind |-> "", named |-> FALSE, metric |-> <<>>, fields |-> {}]
ValueError(name, fields) ==
    [kind |-> "ValueError", named |-> TRUE, metric |-> name, fields |-> fields]
ArgsError == [kind |-> "ValueError", named |-> FALSE, metric |-> <<>>, fields |-> {}]
EvalError == [kind |-> "SyntaxError", named |-> FALSE, metric |-> <<>>, fields |-> {}]

\* parsed_metric.get(field_name): None when the key is missing.
DictGet(entry, field) == IF entry[field] = Absent THEN JNull ELSE entry[field]

\* The expression strings of the documents.
ExprFixed == JStr("{'CreatedAfter': datetime(2018,1,1) - timedelta(weeks=4)}")
ExprNow == JStr("{'CreatedAfter': datetime.now() - timedelta(weeks=4)}")
ExprNotDict == JStr("datetime.now()")
ExprBroken == JStr("{")

\* eval(paginator_args, {"datetime": ..., "timedelta": ...}) at time now:
\* the value, or raised.  Time is counted in weeks; 2018-01-01 is week 100.
Eval(expr, now) ==
    CASE expr = ExprFixed -> [raised |-> FALSE, value |-> YDict("CreatedAfter", DateTime(100 - 4))]
      [] expr = ExprNow -> [raised |-> FALSE, value |-> YDict("CreatedAfter", DateTime(now - 4))]
      [] expr = ExprNotDict -> [raised |-> FALSE, value |-> DateTime(now)]
      [] OTHER -> [raised |-> TRUE, value |-> JNull]

IsDict(v) == v[1] = "dict"
IsStr(v) == v[1] = "str"

\* eval_paginator_args(paginator_args): [error, value].
EvalPaginatorArgs_NoTypeCheck(args, now) ==
    IF IsStr(args) /\ ~Eval(args, now).raised
    THEN [error |-> NoError, value |-> Eval(args, now).value]
    ELSE [error |-> NoError, value |-> args]
EvalPaginatorArgs(args, now) ==
    IF IsDict(args) THEN [error |-> NoError, value |-> args]
    ELSE IF IsStr(args)
    THEN IF Eval(args, now).raised THEN [error |-> EvalError, value |-> JNull]
         ELSE IF ~IsDict(Eval(args, now).value) THEN [error |-> ArgsError, value |-> JNull]
         ELSE [error |-> NoError, value |-> Eval(args, now).value]
    ELSE [error |-> ArgsError, value |-> JNull]

\* parsed_metric.get(method_args_field, {})
ArgsOf(entry, field) == IF entry[field] = Absent THEN YEmptyDict ELSE entry[field]

\* get_field(field_name, metric_name, parsed_metric) raises.
FieldMissing(entry, field) == IsNone(DictGet(entry, field))

\* `if 'paginator' in parsed_metric` (else the 'method' branch).
UsePaginator_PreferMethod(entry) == entry.method = Absent
UsePaginator(entry) == entry.paginator # Absent

\* One iteration of `for metric_name, parsed_metric in parsed_yaml.items()`:
\* the error raised, or the AwsMetric appended.
ParseEntry(name, entry, now) ==
    LET use_paginator == UsePaginator(entry)
        method_field == IF use_paginator THEN "paginator" ELSE "method"
        method_args_field == IF use_paginator THEN "paginator_args" ELSE "method_args"
        args == EvalPaginatorArgs(ArgsOf(entry, method_args_field), now)
        fail(err) == [error |-> err, metric |-> NoMetric]
    IN  IF ~ReMatch(name) THEN fail(ValueError(name, {}))
        ELSE IF entry.paginator = Absent /\ entry.method = Absent
        THEN fail(ValueError(name, {"paginator", "method"}))
        ELSE IF FieldMissing(entry, "description")
        THEN fail(ValueError(name, {"description"}))
        ELSE IF FieldMissing(entry, "service")
        THEN fail(ValueError(name, {"service"}))
        ELSE IF FieldMissing(entry, method_field)
        THEN fail(ValueError(name, {method_field}))
        ELSE IF args.error # NoError THEN fail(args.error)
        ELSE IF FieldMissing(entry, "label_names")
        THEN fail(ValueError(name, {"label_names"}))
        ELSE IF FieldMissing(entry, "search")
        THEN fail(ValueError(name, {"search"}))
        ELSE [error |-> NoError,
              metric |-> [name |-> name,
                          description |-> Strip(entry.description),
                          service |-> Strip(entry.service),
                          method |-> Strip(entry[method_field]),
                          method_args |-> args.value,
                          use_paginator |-> use_paginator,
                          label_names |-> entry.label_names,
                          search |-> Strip(entry.search)]]

\* The loop over parsed_yaml.items(): the first error ends it.
RECURSIVE ParseItems(_, _, _)
ParseItems(items, metrics, now) ==
    IF items = <<>> THEN [ok |-> TRUE, metrics |-> metrics, error |-> NoError]
    ELSE LET one == ParseEntry(Head(items).name, Head(items).entry, now)
         IN  IF one.error # NoError
             THEN [ok |-> FALSE, metrics |-> <<>>, error |-> one.error]
             ELSE ParseItems(Tail(items), Append(metrics, one.metric), now)

\* parse_aws_metrics(yaml_string), called at time now.
ParseAwsMetrics(text, now) == ParseItems(YamlLoad(text), <<>>, now)

\* ------------------------------------------------------------------------
\* Specification SpecParse: one document, parsed twice while the clock
\* advances.
\* ------------------------------------------------------------------------
\* Metric names: every sequence of at most MaxNameLen characters.
NameAlphabet == {"a", "7", "_", "A", "-", "\n"}
RECURSIVE NamesOfLen(_)
NamesOfLen(n) ==
    IF n = 0 THEN {<<>>}
    ELSE {Append(w, c) : w \in NamesOfLen(n - 1), c \in NameAlphabet}
Names == UNION {NamesOfLen(n) : n \in 0..MaxNameLen}

EntryOf(d, s, p, m, pa, ma, l, q) ==
    [description |-> d, service |-> s, paginator |-> p, method |-> m,
     paginator_args |-> pa, method_args |-> ma, label_names |-> l, search |-> q]

DescriptionText == YText(<<"d">>)
ServiceText == YText(<<"e", "c", "2">>)
PaginatorText == YText(<<"p">>)
MethodText == YText(<<"m">>)
SearchText == YText(<<"s", "\n">>)
FiltersDict == YDict("Filters", JStr("running"))
NamesDict == YDict("Names", JStr("x"))

PaginatorEntry ==
    EntryOf(DescriptionText, ServiceText, PaginatorText, Absent,
            FiltersDict, Absent, <<"id">>, SearchText)
MethodEntry ==
    EntryOf(DescriptionText, ServiceText, Absent, MethodText,
            Absent, NamesDict, <<"id", "az">>, SearchText)

\* Entries with every combination of missing, null and present fields and
\* every kind of arguments value.
Entries ==
    {EntryOf(d, s, p, m, pa, ma, l, q) :
        d \in {Absent, JNull, DescriptionText},
        s \in {Absent, ServiceText},
        p \in {Absent, JNull, PaginatorText},
        m \in {Absent, MethodText},
        pa \in {Absent, JNull, FiltersDict, YList,
                ExprFixed, ExprNow, ExprNotDict, ExprBroken},
        ma \in {Absent, JNull, NamesDict, ExprNow},
        l \in {Absent, <<"id">>},
        q \in {Absent, JNull, SearchText}}

\* Documents of several items, over few names and entries.
FewItems ==
    {Item(n, e) :
        n \in {<<"a">>, <<"7">>, <<"A">>},
        e \in {PaginatorEntry, MethodEntry,
               [PaginatorEntry EXCEPT !.search = Absent],
               [PaginatorEntry EXCEPT !.paginator_args = ExprNow]}}
RECURSIVE DocsOfLen(_)
DocsOfLen(n) ==
    IF n = 0 THEN {<<>>}
    ELSE {Append(t, it) : t \in DocsOfLen(n - 1), it \in FewItems}

Docs ==
    {<<Item(n, PaginatorEntry)>> : n \in Names}
    \cup {<<Item(<<"a">>, e)>> : e \in Entries}
    \cup {<<Item(<<"A">>, e)>> : e \in {EntryOf(Absent, ServiceText, p, Absent, Absent, Absent, <<"id">>, SearchText) : p \in {Absent, PaginatorText}}}
    \cup UNION {DocsOfLen(n) : n \in 0..MaxEntries}

ParseInit ==
    /\ doc \in Docs
    /\ clock = 0
    /\ results = <<>>
    /\ data_lock = NoThread
    /\ data = [n \in MetricNames |-> NoEntry]
    /\ self_label_names = <<>>
    /\ self_label_values = <<>>
    /\ self_metrics = Metrics
    /\ LegacyIdle
    /\ upd = [t \in Updaters |-> IdleFrame]
    /\ scr = [s \in Scrapers |-> [pc |-> "idle", k |-> 0, families |-> <<>>]]
    /\ attempted = [t \in Updaters |-> {}]
    /\ lastGood = [n \in MetricNames |-> <<>>]
    /\ fn = IdleFrame
    /\ fn_label_values = <<>>
    /\ MainIdle

\* Time passes (datetime.now() moves on).
Tick ==
    /\ clock < MaxClock
    /\ clock' = clock + 1
    /\ UNCHANGED <<doc, results, collectorVars, fnVars, mainVars, legacyVars>>

\* metrics = parse_aws_metrics(metrics_yaml)
ParseCall ==
    /\ Len(results) < 2
    /\ results' = Append(results, ParseAwsMetrics(doc, clock))
    /\ UNCHANGED <<doc, clock, collectorVars, fnVars, mainVars, legacyVars>>

ParseNext == Tick \/ ParseCall

SpecParse == ParseInit /\ [][ParseNext]_vars

\* ------------------------------------------------------------------------
\* Properties of parse_aws_metrics (SpecParse)
\* ------------------------------------------------------------------------
\* The dict yaml.load hands to the loop.
Loaded == YamlLoad(doc)
Called == 1..Len(results)

\* A name the specification rejects: empty, or holding a character that is
\* not a lowercase letter, a digit or an underscore.
BadName(name) == name = <<>> \/ \E i \in 1..Len(name) : ~InClass(name[i])

\* C15 (name validation): the parse succeeds only when every name is a
\* non-empty string of lowercase letters, digits and underscores, and a
\* document whose only entry has another name fails with an error naming
\* that metric.
C15_NameValidation ==
    \A k \in Called :
        /\ results[k].ok => \A i \in 1..Len(Loaded) : ~BadName(Loaded[i].name)
        /\ (Len(doc) = 1 /\ BadName(doc[1].name)) =>
              /\ ~results[k].ok
              /\ results[k].error = ValueError(doc[1].name, {})

\* The entry key that holds the operation identifier.
OpField(entry) == IF entry.paginator # Absent THEN "paginator" ELSE "method"

\* The mandatory fields of the claim that an entry lacks (missing or null).
MissingOf(entry) ==
    {f \in {"description", "service", OpField(entry), "search"} :
        IsNone(DictGet(entry, f))}

\* C16, as stated (field completeness): whenever an entry lacks a mandatory
\* field, the parse fails, returns no list, and its error names both that
\* metric and that field.
C16_FieldCompleteness ==
    \A k \in Called : \A i \in 1..Len(Loaded) : \A f \in MissingOf(Loaded[i].entry) :
        /\ ~results[k].ok
        /\ results[k].metrics = <<>>
        /\ results[k].error.named
        /\ results[k].error.metric = Loaded[i].name
        /\ f \in results[k].error.fields

\* The fields get_field is asked for before field f of an entry.
ReadBefore(entry, f) ==
    CASE f = "description" -> {}
      [] f = "service" -> {"description"}
      [] f = "search" -> {"description", "service", OpField(entry), "label_names"}
      [] OTHER -> {"description", "service"}

\* The arguments value of an entry is one the parser accepts.
ArgsAccepted(entry) ==
    LET a == ArgsOf(entry, IF entry.paginator # Absent
                           THEN "paginator_args" ELSE "method_args")
    IN  a \in {YEmptyDict, FiltersDict, NamesDict, ExprFixed, ExprNow}

\* Field f is the first defect the parser meets in item i: the items before
\* it are free of defects, its name is valid, it has an operation key unless
\* f is that key, and everything read before f is in order.
FreeOfDefects(item) ==
    /\ ~BadName(item.name)
    /\ item.entry.paginator # Absent \/ item.entry.method # Absent
    /\ MissingOf(item.entry) = {}
    /\ ~IsNone(DictGet(item.entry, "label_names"))
    /\ ArgsAccepted(item.entry)
FirstDefect(i, f) ==
    LET item == Loaded[i] IN
    /\ \A h \in 1..(i - 1) : FreeOfDefects(Loaded[h])
    /\ ReMatch(item.name)
    /\ \A g \in ReadBefore(item.entry, f) : ~IsNone(DictGet(item.entry, g))
    /\ f = "search" => ArgsAccepted(item.entry)
    /\ f \notin {"paginator", "method"} =>
          (item.entry.paginator # Absent \/ item.entry.method # Absent)

\* C16 (field completeness, first defect): whenever an entry lacks a
\* mandatory field the parse fails and returns no list; its error names
\* that metric and that field when the field is the first defect the parser
\* meets (items in document order; within an item: name, presence of an
\* operation key, description, service, operation identifier, arguments,
\* label_names, search).
C16_FieldCompletenessFirst ==
    \A k \in Called : \A i \in 1..Len(Loaded) : \A f \in MissingOf(Loaded[i].entry) :
        /\ ~results[k].ok
        /\ results[k].metrics = <<>>
        /\ FirstDefect(i, f) =>
              /\ results[k].error.kind = "ValueError"
              /\ results[k].error.named
              /\ results[k].error.metric = Loaded[i].name
              /\ f \in results[k].error.fields

\* A second item lacks its search expression and this is the first defect.
C16_Witness ==
    /\ Len(results) = 2 /\ Len(Loaded) = 2
    /\ MissingOf(Loaded[2].entry) = {"search"}
    /\ FirstDefect(2, "search")
    /\ results[2].error = ValueError(Loaded[2].name, {"search"})

\* The arguments of a parsed metric come from the entry value src: the dict
\* itself, the empty dict when the key is absent, the value of the
\* expression at some time of the clock.
ArgsFrom(value, src) ==
    /\ IsDict(src) => value = src
    /\ src = Absent => value = YEmptyDict
    /\ IsStr(src) => \E t \in 0..MaxClock : value = Eval(src, t).value

\* C17 (protocol selection): an entry with neither a 'paginator' nor a
\* 'method' key makes the parse fail; in a successful parse use_paginator
\* is True exactly for the entries with a 'paginator' key, whose method and
\* arguments then come from paginator / paginator_args, and otherwise they
\* come from method / method_args; _collect_metric takes the paginated
\* protocol exactly when use_paginator is True.
C17_ProtocolSelection ==
    \A k \in Called :
        /\ \A i \in 1..Len(Loaded) :
              (Loaded[i].entry.paginator = Absent /\ Loaded[i].entry.method = Absent)
                  => ~results[k].ok
        /\ results[k].ok =>
              /\ Len(results[k].metrics) = Len(Loaded)
              /\ \A i \in 1..Len(Loaded) :
                    LET entry == Loaded[i].entry
                        metric == results[k].metrics[i]
                    IN  IF entry.paginator # Absent
                        THEN /\ metric.use_paginator
                             /\ metric.method = Strip(entry.paginator)
                             /\ ArgsFrom(metric.method_args, entry.paginator_args)
                             /\ Begin(i, metric).pc = "paginate"
                        ELSE /\ ~metric.use_paginator
                             /\ metric.method = Strip(entry.method)
                             /\ ArgsFrom(metric.method_args, entry.method_args)
                             /\ Begin(i, metric).pc = "loop"

\* An entry with both keys and both arguments fields was parsed.
C17_Witness ==
    /\ Len(results) >= 1 /\ results[1].ok /\ Len(Loaded) = 1
    /\ Loaded[1].entry.paginator = PaginatorText
    /\ Loaded[1].entry.method = MethodText
    /\ Loaded[1].entry.paginator_args = FiltersDict
    /\ Loaded[1].entry.method_args = NamesDict
    /\ results[1].metrics[1].use_paginator
    /\ results[1].metrics[1].method_args = FiltersDict

\* The document declares one metric name in two items.
DeclaredTwice ==
    \E i, j \in 1..Len(doc) : i # j /\ doc[i].name = doc[j].name

\* C18 (unique names): a document that declares a metric name twice fails
\* to parse, and the names of a parsed metric list are pairwise distinct.
C18_UniqueNames ==
    \A k \in Called :
        /\ DeclaredTwice => ~results[k].ok
        /\ results[k].ok =>
              \A i, j \in 1..Len(results[k].metrics) :
                  i # j => results[k].metrics[i].name # results[k].metrics[j].name

\* C19 (idempotent parse): two calls of parse_aws_metrics on the same
\* document return equal metric lists, whenever they happen.
C19_IdempotentParse ==
    Len(results) = 2 =>
        /\ results[1].ok = results[2].ok
        /\ results[1].metrics = results[2].metrics

\* The entry value the arguments of metric i are read from.
ArgsSource(i) ==
    IF Loaded[i].entry.paginator # Absent
    THEN Loaded[i].entry.paginator_args ELSE Loaded[i].entry.method_args

\* An arguments value that is neither a string nor a dict, or a string
\* whose evaluation gives something that is not a dict.
ArgsRejected(src) ==
    \/ src \in {YList, JNull}
    \/ /\ IsStr(src)
       /\ \A t \in 0..MaxClock :
             ~Eval(src, t).raised /\ ~IsDict(Eval(src, t).value)

\* C20 (arguments are always a mapping): the method_args of every parsed
\* metric is a dict, namely the entry's dict itself, the empty dict when the
\* arguments key is absent, the value of the expression when it is a
\* string; a string that evaluates to something else, and a value that is
\* neither a string nor a dict (null, a list), make the parse fail.
C20_ArgsAlwaysMapping ==
    \A k \in Called :
        /\ results[k].ok =>
              \A i \in 1..Len(results[k].metrics) :
                  /\ IsDict(results[k].metrics[i].method_args)
                  /\ ArgsFrom(results[k].metrics[i].method_args, ArgsSource(i))
        /\ \A i \in 1..Len(Loaded) : ArgsRejected(ArgsSource(i)) => ~results[k].ok

\* A parse that took the arguments of one metric from an expression and of
\* another from a dict.
C20_Witness ==
    /\ Len(results) = 2 /\ results[2].ok /\ Len(Loaded) = 2
    /\ ArgsSource(1) = ExprNow /\ ArgsSource(2) = NamesDict
    /\ results[2].metrics[1].method_args = YDict("CreatedAfter", DateTime(clock - 4))
    /\ clock = MaxClock

\* ------------------------------------------------------------------------
\* Specification SpecMain: main(args), from reading the metrics file to the
\* refresh loop, with the scrape thread of the HTTP server.  The collector
\* refreshes Metrics; GoodDoc is a document declaring two such metrics, the
\* first paginated and the second not.
\* ------------------------------------------------------------------------
GoodDoc == <<Item(<<"a">>, PaginatorEntry), Item(<<"7">>, MethodEntry)>>
MainDocs ==
    {GoodDoc,
     <<Item(<<"a">>, PaginatorEntry), Item(<<"A">>, MethodEntry)>>,
     <<Item(<<"a">>, PaginatorEntry),
       Item(<<"7">>, [MethodEntry EXCEPT !.search = Absent])>>,
     <<Item(<<"a">>, [PaginatorEntry EXCEPT !.paginator_args = ExprNotDict])>>,
     <<Item(<<"a">>, [PaginatorEntry EXCEPT !.paginator_args = ExprBroken])>>,
     <<Item(<<"a">>, [PaginatorEntry EXCEPT !.paginator_args = ExprFixed])>>}

MainInit ==
    /\ main_pc = "start"
    /\ main_metrics = <<>>
    /\ listening = FALSE
    /\ doc \in MainDocs
    /\ clock = 0
    /\ results = <<>>
    /\ data_lock = NoThread
    /\ data = [n \in MetricNames |-> NoEntry]
    /\ \E x \in ExtraLabels :
          /\ self_label_names = x.names
          /\ self_label_values = x.values
    /\ self_metrics = Metrics
    /\ LegacyIdle
    /\ upd = [t \in Updaters |-> IdleFrame]
    /\ scr = [s \in Scrapers |-> [pc |-> "idle", k |-> 0, families |-> <<>>]]
    /\ attempted = [t \in Updaters |-> {}]
    /\ lastGood = [n \in MetricNames |-> <<>>]
    /\ fn = IdleFrame
    /\ fn_label_values = <<>>

\* Variant of MainParse: a parse error does not stop main.
MainParse_IgnoreError ==
    /\ main_pc = "start"
    /\ results' = <<ParseAwsMetrics(doc, clock)>>
    /\ main_metrics' = results'[1].metrics
    /\ main_pc' = "register"
    /\ UNCHANGED <<doc, clock, listening, collectorVars, fnVars, legacyVars>>

\* metrics = parse_aws_metrics(metrics_yaml): an exception leaves main.
MainParse ==
    /\ main_pc = "start"
    /\ results' = <<ParseAwsMetrics(doc, clock)>>
    /\ main_metrics' = results'[1].metrics
    /\ main_pc' = IF results'[1].ok THEN "register" ELSE "failed"
    /\ UNCHANGED <<doc, clock, listening, collectorVars, fnVars, legacyVars>>

\* The collector is built and registered, start_http_server(port).
MainServe ==
    /\ main_pc = "register"
    /\ listening' = TRUE
    /\ main_pc' = "loop"
    /\ UNCHANGED <<main_metrics, parseVars, collectorVars, fnVars, legacyVars>>

\* `while True: try: collector.update()`: update() is called.
MainUpdate ==
    /\ main_pc = "loop"
    /\ main_pc' = "update"
    /\ upd' = [upd EXCEPT !["main"] = [IdleFrame EXCEPT !.pc = "lock"]]
    /\ attempted' = [attempted EXCEPT !["main"] = {}]
    /\ UNCHANGED <<data_lock, data, self_label_names, self_label_values, self_metrics,
                   scr, lastGood, main_metrics, listening, parseVars, fnVars, legacyVars>>

\* A step of the update() that main is in.
MainUpdateStep ==
    /\ main_pc = "update"
    /\ \/ UpdateAcquire("main")
       \/ UpdateClear("main")
       \/ UpdateCollectMetric("main")
       \/ UpdatePaginatorReturn("main")
       \/ UpdateLoopTest("main")
       \/ UpdateServiceReturn("main")
       \/ UpdateRemoteRaise("main")
       \/ UpdateAssertDicts("main")
       \/ UpdateProjectRecord("main")
       \/ UpdateReturn("main")
       \/ UpdateStore("main")
       \/ UpdateRelease("main")

\* update() returned: time.sleep(args.period_seconds)
MainSleep ==
    /\ main_pc = "update"
    /\ upd["main"].pc = "idle"
    /\ main_pc' = "sleep"
    /\ UNCHANGED <<main_metrics, listening, parseVars, collectorVars, fnVars, legacyVars>>

\* The sleep is over: the next iteration of the loop.
MainWake ==
    /\ main_pc = "sleep"
    /\ main_pc' = "loop"
    /\ UNCHANGED <<main_metrics, listening, parseVars, collectorVars, fnVars, legacyVars>>

\* update() raised: `except KeyboardInterrupt` does not catch the
\* exception, which leaves the loop and main; the process ends.
MainCrash ==
    /\ main_pc = "update"
    /\ upd["main"].pc = "raised"
    /\ main_pc' = "crashed"
    /\ listening' = FALSE
    /\ upd' = [upd EXCEPT !["main"] = IdleFrame]
    /\ UNCHANGED <<main_metrics, parseVars, data_lock, data, self_label_names,
                   self_label_values, self_metrics, scr, attempted, lastGood,
                   fnVars, legacyVars>>

\* KeyboardInterrupt inside the try: `break`, "Done.", the process ends.
MainInterrupt ==
    /\ main_pc \in {"update", "sleep"}
    /\ upd["main"].pc # "raised"
    /\ main_pc' = "stopped"
    /\ listening' = FALSE
    /\ upd' = [upd EXCEPT !["main"] = IdleFrame]
    /\ data_lock' = IF data_lock = "main" THEN NoThread ELSE data_lock
    /\ UNCHANGED <<main_metrics, parseVars, data, self_label_names,
                   self_label_values, self_metrics, scr, attempted, lastGood,
                   fnVars, legacyVars>>

\* A step of a scrape served by the HTTP server.
MainScrape ==
    /\ listening
    /\ \E s \in Scrapers :
          \/ CollectCall(s)
          \/ CollectAcquire(s)
          \/ CollectYield(s)
          \/ CollectResume(s)
          \/ CollectExit(s)

MainNext ==
    \/ MainParse
    \/ MainServe
    \/ MainUpdate
    \/ MainUpdateStep
    \/ MainSleep
    \/ MainWake
    \/ MainCrash
    \/ MainInterrupt
    \/ MainScrape

SpecMain == MainInit /\ [][MainNext]_vars

\* C11 (runtime errors are not a process crash): a refresh cycle in which a
\* metric failed does not end the refresh loop of main; main goes on to the
\* sleep and the next cycle (or is stopped by the operator).
C11_RuntimeErrorsNotFatal ==
    [][ (main_pc = "update" /\ upd["main"].pc = "raised")
            => main_pc' \in {"update", "sleep", "loop", "stopped"} ]_vars

\* No instant at which the parser accepts the document.
ParseFails == \A t \in 0..MaxClock : ~ParseAwsMetrics(doc, t).ok

\* C12 (load-time errors are fatal before serving): the HTTP listener and
\* the refresh loop start only after the whole document was parsed; when
\* the parse fails main ends without listening and without a refresh.
C12_LoadErrorsFatal ==
    /\ (listening \/ main_pc \in {"loop", "update", "sleep"}) =>
          /\ results # <<>> /\ results[1].ok
          /\ Len(main_metrics) = Len(Loaded)
    /\ ParseFails =>
          /\ ~listening
          /\ main_pc \in {"start", "failed"}
          /\ upd["main"] = IdleFrame
          /\ \A s \in Scrapers : scr[s].pc = "idle"

\* main ended on the parse error of a document whose second entry is bad.
C12_Witness ==
    /\ main_pc = "failed" /\ ~listening
    /\ Len(doc) = 2
    /\ ~results[1].ok /\ results[1].error.named
    /\ results[1].error.metric = doc[2].name

\* ------------------------------------------------------------------------
\* Row order (checked under SpecFn)
\* ------------------------------------------------------------------------
\* The row a record stands for: the collector's label values, then the
\* record's labels with None replaced, and the record's value.
RowOf(r) ==
    <<fn_label_values
        \o [k \in 1..Len(fn.metric.label_names) |->
              IF IsNone(r[fn.metric.label_names[k]])
              THEN NullSentinel ELSE r[fn.metric.label_names[k]]],
      r.value>>

\* C21 (row order and count): the records of a later response are put
\* after the records already received; each projection step appends the row
\* of the next record in that order; the returned list has one row per
\* record, and no row is dropped, merged or moved.
C21_RowOrderAndCount ==
    [][ /\ (fn.pc = "in_call" /\ fn'.pc = "loop") =>
              /\ Len(fn'.responses) >= Len(fn.responses)
              /\ SubSeq(fn'.responses, 1, Len(fn.responses)) = fn.responses
        /\ (fn.pc = "rows" /\ fn'.pc = "rows") =>
              /\ fn'.j = fn.j + 1
              /\ Len(fn.result) = fn.j - 1
              /\ fn'.result = Append(fn.result, RowOf(fn.responses[fn.j]))
              /\ Len(fn'.responses) = Len(fn.responses)
              /\ \A n \in 1..Len(fn.responses) :
                    n # fn.j => fn'.responses[n] = fn.responses[n]
        /\ (fn.pc = "rows" /\ fn'.pc = "return") =>
              /\ fn'.result = fn.result
              /\ Len(fn.result) = Len(fn.responses)
      ]_vars

\* Two calls of the cursor loop each returned the same record: two equal
\* rows were returned.
C21_Witness ==
    /\ fn.pc = "return" /\ ~fn.metric.use_paginator
    /\ Len(fn.calls) = 2 /\ Len(fn.result) = 2
    /\ fn.result[1] = fn.result[2]

\* ------------------------------------------------------------------------
\* More properties of parse_aws_metrics (SpecParse)
\* ------------------------------------------------------------------------
\* C22 (parse preserves the document): a successful parse returns one
\* metric per item of the document, in document order and with the item's
\* name; a document with an invalid item makes the parse raise, and a
\* parse that raises returns no metric.
C22_ParsePreservesDocument ==
    \A k \in Called :
        /\ results[k].ok =>
              /\ Len(results[k].metrics) = Len(doc)
              /\ \A i \in 1..Len(doc) : results[k].metrics[i].name = doc[i].name
        /\ (\E i \in 1..Len(doc) : ~FreeOfDefects(doc[i])) => ~results[k].ok
        /\ ~results[k].ok => results[k].metrics = <<>>

\* ------------------------------------------------------------------------
\* Frame of a refresh (checked under Spec)
\* ------------------------------------------------------------------------
\* C23 (specs are not mutated by refreshes): at every moment self._metrics
\* holds the metrics as they were built, the metric a refresh works on is
\* that metric, and the first remote call of a refresh carries exactly its
\* method_args, without a NextToken.
C23_SpecsNotMutated ==
    /\ self_metrics = Metrics
    /\ \A t \in Updaters :
          upd[t].metric # NoMetric =>
              /\ upd[t].metric = Metrics[upd[t].i]
              /\ Len(upd[t].calls) >= 1 =>
                    /\ upd[t].calls[1] = Metrics[upd[t].i].method_args
                    /\ upd[t].calls[1].NextToken = Absent

\* A refresh of the cursor-loop metric makes its first call after an
\* earlier refresh of that metric went through two calls.
C23_Witness ==
    \E t \in Updaters :
        /\ upd[t].pc = "in_call" /\ ~upd[t].metric.use_paginator
        /\ Len(upd[t].calls) = 1
        /\ Len(lastGood[upd[t].metric.name]) = 2

\* C24 (no lock leak on failure): a thread whose update() has ended, with
\* an error or not, does not hold the lock; the lock is free or held by a
\* thread that is inside update() or inside a collect() pass, so a later
\* collect() or update() finds it free once that thread is through.
C24_NoLockLeak ==
    /\ \A t \in Updaters :
          /\ upd[t].pc = "raised" => data_lock # t
          /\ data_lock = t => upd[t].pc \in InFlight
    /\ \A s \in Scrapers : data_lock = s => scr[s].pc \in {"loop", "yielded"}

\* After the update() of one thread failed, another thread acquired the
\* lock in its own update().
C24_Witness ==
    \E t1, t2 \in Updaters :
        /\ t1 # t2
        /\ upd[t1].pc = "raised"
        /\ data_lock = t2 /\ upd[t2].pc = "clear"

\* Positions of a collect() pass between its first resumption and its end.
Emitting == {"loop", "yielded"}

\* C25 (one scrape sees one snapshot): a collect() pass holds the lock from
\* before its first family until it is exhausted; while it does, no
\* update() is between acquiring and releasing the lock, none enters, and
\* self._data does not change, so all its families show one state.
C25_OneScrapeOneSnapshot ==
    [][ \A s \in Scrapers :
          scr[s].pc \in Emitting =>
              /\ data_lock = s
              /\ \A t \in Updaters : upd[t].pc \notin InFlight
              /\ data' = data
              /\ scr'[s].pc \in Emitting =>
                    /\ data_lock' = s
                    /\ \A t \in Updaters : upd'[t].pc \notin InFlight
      ]_vars

\* A pass has emitted its second family from a filled snapshot while a
\* refresh thread waits for the lock.
C25_Witness ==
    \E s \in Scrapers, t \in Updaters :
        /\ scr[s].pc = "yielded"
        /\ Len(scr[s].families) = 2
        /\ \A k \in 1..2 : scr[s].families[k].samples # <<>>
        /\ upd[t].pc = "lock"

\* ------------------------------------------------------------------------
\* Specification SpecLegacy: aws_metrics.py, a sequence of run() calls on
\* one AwsMetricsCollector.
\* ------------------------------------------------------------------------
\* Most run() calls, most values returned by one paginated search.
MaxRuns == 2
MaxVals == 2

\* The label arguments of a run() call.
LegacyLabelArgs ==
    { [names |-> <<>>, values |-> <<>>],
      [names |-> <<"region">>, values |-> <<JStr("us")>>],
      [names |-> <<"region">>, values |-> <<JStr("eu")>>] }

\* The values a search returns, and the sequences of them.
LegacyValues == {JStr("i-1"), JStr("1"), JNum("1")}
LegacyPages == UNION { [1..n -> LegacyValues] : n \in 0..MaxVals }

\* Gauge.labels(*labelvalues): each label value is converted with str().
LabelStr(v) ==
    CASE v[1] = "str" -> v
      [] v[1] = "null" -> JStr("None")
      [] OTHER -> JStr(v[2])
LabelStrs(labels) == [k \in 1..Len(labels) |-> LabelStr(labels[k])]

\* gauge.labels(*labels).set(value): the sample of these labels has value.
SetSample(gauge, labels, value) ==
    [gauge EXCEPT !.samples =
        {p \in @ : p[1] # LabelStrs(labels)} \cup {<<LabelStrs(labels), value>>}]

LegacyInit ==
    /\ LegacyIdle
    /\ data_lock = NoThread
    /\ data = [n \in MetricNames |-> NoEntry]
    /\ self_label_names = <<>>
    /\ self_label_values = <<>>
    /\ self_metrics = Metrics
    /\ upd = [t \in Updaters |-> IdleFrame]
    /\ scr = [s \in Scrapers |-> [pc |-> "idle", k |-> 0, families |-> <<>>]]
    /\ attempted = [t \in Updaters |-> {}]
    /\ lastGood = [n \in MetricNames |-> <<>>]
    /\ fn = IdleFrame
    /\ fn_label_values = <<>>
    /\ ParseIdle
    /\ MainIdle

otherVars == <<collectorVars, fnVars, parseVars, mainVars>>

\* run(boto3_session, label_names, label_values) is called.
LegacyRun ==
    /\ run.pc \in {"idle", "raised"}
    /\ runs < MaxRuns
    /\ runs' = runs + 1
    /\ \E a \in LegacyLabelArgs :
          run' = [IdleRun EXCEPT !.pc = "metric", !.k = 1,
                                 !.label_names = a.names, !.label_values = a.values]
    /\ UNCHANGED <<gauges, created, otherVars>>

\* _run_array_to_unit_gauge_metric, line 45 and the call of line 46:
\* _get_gauge builds the Gauge if the name has none, and the paginated
\* search is started.
LegacyGetGauge ==
    /\ run.pc = "metric"
    /\ run.k \in 1..Len(LegacyMetrics)
    /\ LET metric == LegacyMetrics[run.k]
       IN  IF ~gauges[metric.name].exists
           THEN /\ gauges' = [gauges EXCEPT ![metric.name] =
                                 Gauge(run.label_names \o <<metric.value_label>>)]
                /\ created' = [created EXCEPT ![metric.name] = @ + 1]
           ELSE UNCHANGED <<gauges, created>>
    /\ \E values \in LegacyPages : run' = [run EXCEPT !.pc = "values", !.pending = values]
    /\ UNCHANGED <<runs, otherVars>>

\* The remote call or the iteration of its pages raises: run() ends.
LegacyRemoteRaise ==
    /\ run.pc = "values"
    /\ run' = [run EXCEPT !.pc = "raised", !.pending = <<>>, !.error = "ClientError"]
    /\ UNCHANGED <<gauges, created, runs, otherVars>>

\* One iteration of line 46-47: gauge.labels(*(label_values + [value])).set(1);
\* labels() raises ValueError when the count of label values is not the
\* count of the Gauge's label names.
LegacySet ==
    /\ run.pc = "values"
    /\ run.pending # <<>>
    /\ LET name == LegacyMetrics[run.k].name
           labels == run.label_values \o <<Head(run.pending)>>
       IN  IF Len(labels) # Len(gauges[name].labelnames)
           THEN /\ run' = [run EXCEPT !.pc = "raised", !.pending = <<>>,
                                      !.error = "ValueError"]
                /\ UNCHANGED gauges
           ELSE /\ gauges' = [gauges EXCEPT ![name] = SetSample(@, labels, 1)]
                /\ run' = [run EXCEPT !.pending = Tail(@)]
    /\ UNCHANGED <<created, runs, otherVars>>

\* The iterator is exhausted: `for metric in self.metrics` goes on.
LegacyNextMetric ==
    /\ run.pc = "values"
    /\ run.pending = <<>>
    /\ run' = [run EXCEPT !.pc = "metric", !.k = @ + 1]
    /\ UNCHANGED <<gauges, created, runs, otherVars>>

\* run() returns.
LegacyReturn ==
    /\ run.pc = "metric"
    /\ run.k > Len(LegacyMetrics)
    /\ run' = IdleRun
    /\ UNCHANGED <<gauges, created, runs, otherVars>>

LegacyNext ==
    \/ LegacyRun
    \/ LegacyGetGauge
    \/ LegacyRemoteRaise
    \/ LegacySet
    \/ LegacyNextMetric
    \/ LegacyReturn

SpecLegacy == LegacyInit /\ [][LegacyNext]_vars

\* The label values of the sample the next iteration of run() sets.
NextLabels == LabelStrs(run.label_values \o <<Head(run.pending)>>)

\* The search returns a value to the loop of run() in this step.
ValueReturned ==
    run.pc = "values" /\ run.pending # <<>> /\ run'.error # "ClientError"

\* Gauges are built once and their samples stay: at most one Gauge(...) call
\* per metric name, none without a gauge in self.gauges, and a step keeps
\* every gauge's label names and every sample it had.
GaugesOnlyGrow ==
    \A n \in LegacyNames :
        /\ created'[n] <= 1
        /\ gauges'[n].exists <=> created'[n] = 1
        /\ gauges[n].exists =>
              /\ gauges'[n].exists
              /\ gauges'[n].labelnames = gauges[n].labelnames
        /\ gauges[n].samples \subseteq gauges'[n].samples
        /\ \A p \in gauges'[n].samples : p[2] = 1

\* C26, as stated (legacy collector accumulates): one gauge per metric
\* name, built on first use and reused; every value a run's search returns
\* has its sample label_values + [value] set to 1; no sample is removed.
C26_LegacyAccumulates ==
    [][ /\ GaugesOnlyGrow
        /\ ValueReturned =>
              <<NextLabels, 1>> \in gauges'[LegacyMetrics[run.k].name].samples
      ]_vars

====
